---- MODULE Spec2Model ----
(***************************************************************************)
(* Model of the dispersion core of Ascent (src/src/weather_integration.py) *)
(* and of the dashboard loop that consumes its output (src/src/app.py).    *)
(*                                                                         *)
(* Units.  wind_speed is held in tenths of a metre per second (50 is 5.0   *)
(* m/s), the stability coefficients in thousandths, temperature and        *)
(* pressure in hundredths; distances, altitudes and stack heights are      *)
(* whole metres.                                                           *)
(*                                                                         *)
(* Floating point.  A float is modelled by its kind: "neg", "zero", "pos", *)
(* "inf", "ninf" or "nan".  The operators KMul, KDiv, KPow and np_exp      *)
(* follow IEEE-754 and the Python / numpy rules for these kinds (a Python  *)
(* float divided by zero raises ZeroDivisionError, a numpy float64 divided *)
(* by zero gives inf or nan).  Magnitudes are not tracked, except for the   *)
(* one place where the magnitude decides the kind within the modelled      *)
(* ranges: the Gaussian term rounds to 0.0 far from the centerline, which  *)
(* is decided from the size of sigma_z squared.                            *)
(***************************************************************************)
EXTENDS Integers, Sequences, FiniteSets, TLC

VARIABLES
    q,                    \* arguments of a direct call of the calculator
    cls,                  \* result of a direct determine_stability_class call
    res,                  \* outcome of a direct calculate_dispersion call
    pc,                   \* position of analyze_launch_conditions / its caller
    predicted_emissions,  \* the emissions mapping passed to the analysis
    fetch,                \* what the weather request did
    weather_conditions,   \* local of analyze_launch_conditions
    dispersion_patterns,  \* local of analyze_launch_conditions
    patterns,             \* local of analyze_launch_conditions
    pi,                   \* index of the pollutant the outer loop is at
    di,                   \* index of the distance the inner loop is at
    calls,                \* calculate_dispersion invocations of this analysis
    exc,                  \* exception that left analyze_launch_conditions
    heatmap,              \* outcome of the dashboard's heatmap loop
    par,                  \* a build whose grid cells are evaluated by workers
    risk,                 \* a call of generate_risk_assessment
    lim,                  \* a LaunchImpactModel, the model files and its caller
    collector             \* a LaunchDataCollector and its caller

vars == <<q, cls, res, pc, predicted_emissions, fetch, weather_conditions,
          dispersion_patterns, patterns, pi, di, calls, exc, heatmap,
          par, risk, lim, collector>>

calcVars == <<q, cls, res>>
passVars == <<pc, predicted_emissions, fetch, weather_conditions,
              dispersion_patterns, patterns, pi, di, calls, exc, heatmap>>
extVars == <<par, risk, lim, collector>>

\* the objects a specification does not use
ExtIdle ==
    /\ par = "idle"
    /\ risk = "idle"
    /\ lim = "idle"
    /\ collector = "idle"

-----------------------------------------------------------------------------
(* Bounds of the model *)

MaxWindSpeed == 100       \* largest wind speed, tenths of m/s
MaxPollutants == 2        \* most entries of an emissions mapping
MaxCalls == 4             \* most calls made on one object
MaxCollectorCalls == 8    \* most calls made on one collector
MaxParCells == 3          \* most grid cells evaluated in one parallel run

-----------------------------------------------------------------------------
(* Python values: floats by kind, dicts as insertion-ordered item lists *)

Kinds == {"neg", "zero", "pos", "inf", "ninf", "nan"}

Float(k) == [t |-> "float", k |-> k]
Dict(items) == [t |-> "dict", items |-> items]
EmptyDict == Dict(<<>>)

Keys(dct) == [i \in 1..Len(dct.items) |-> dct.items[i][1]]
Values(dct) == [i \in 1..Len(dct.items) |-> dct.items[i][2]]

DictSet_front(dct, key, value) ==
    IF \E i \in 1..Len(dct.items) : dct.items[i][1] = key
    THEN Dict([i \in 1..Len(dct.items) |->
                 IF dct.items[i][1] = key THEN <<key, value>> ELSE dct.items[i]])
    ELSE Dict(<<<<key, value>>>> \o dct.items)

\* d[key] = value : replaces the value of an existing key in place, appends
\* a new key at the end
DictSet(dct, key, value) ==
    IF \E i \in 1..Len(dct.items) : dct.items[i][1] = key
    THEN Dict([i \in 1..Len(dct.items) |->
                 IF dct.items[i][1] = key THEN <<key, value>> ELSE dct.items[i]])
    ELSE Dict(Append(dct.items, <<key, value>>))

\* f'{n}m'
FormatM(n) == ToString(n) \o "m"

KindOf(n) == IF n < 0 THEN "neg" ELSE IF n = 0 THEN "zero" ELSE "pos"

KMul(x, y) ==
    CASE x = "nan" \/ y = "nan" -> "nan"
      [] x \in {"inf", "ninf"} /\ y = "zero" -> "nan"
      [] y \in {"inf", "ninf"} /\ x = "zero" -> "nan"
      [] x = "zero" \/ y = "zero" -> "zero"
      [] x \in {"inf", "ninf"} \/ y \in {"inf", "ninf"} ->
            IF (x \in {"neg", "ninf"}) = (y \in {"neg", "ninf"})
            THEN "inf" ELSE "ninf"
      [] OTHER -> IF x = y THEN "pos" ELSE "neg"

\* x / y ; numpy tells whether the numerator is a numpy float64
KDiv(x, y, numpy) ==
    CASE y = "zero" /\ ~numpy -> "ZeroDivisionError"
      [] x = "nan" \/ y = "nan" -> "nan"
      [] y = "zero" -> IF x \in {"pos", "inf"} THEN "inf"
                       ELSE IF x \in {"neg", "ninf"} THEN "ninf" ELSE "nan"
      [] y \in {"inf", "ninf"} ->
            IF x \in {"inf", "ninf"} THEN "nan" ELSE "zero"
      [] x = "zero" -> "zero"
      [] x \in {"inf", "ninf"} ->
            IF (x = "ninf") = (y = "neg") THEN "inf" ELSE "ninf"
      [] OTHER -> IF x = y THEN "pos" ELSE "neg"

\* base ** expo for a base >= 0 and an exponent > 0
KPow(base, expo) == IF base = 0 THEN "zero" ELSE "pos"

-----------------------------------------------------------------------------
(* WeatherCondition and the weather states of the model *)

WeatherCondition(temperature, pressure, humidity, wind_speed, wind_direction, cloud_cover) ==
    [temperature |-> temperature, pressure |-> pressure,
     humidity |-> humidity, wind_speed |-> wind_speed,
     wind_direction |-> wind_direction, cloud_cover |-> cloud_cover]

_get_dummy_weather ==
    WeatherCondition(28815, 101325, 70, 50, 180, 30)

\* from -1.0 m/s (no caller clamps the speed) to the largest speed
WindSpeeds == (0 - 10)..MaxWindSpeed

\* every field varies
AllWeathers ==
    [temperature : {27315, 28815}, pressure : {98000, 101325},
     humidity : {20, 70}, wind_speed : WindSpeeds,
     wind_direction : {0, 180}, cloud_cover : {30, 90}]

\* the wind speed varies, the rest is the dummy's
WindWeathers ==
    {[_get_dummy_weather EXCEPT !.wind_speed = w] : w \in WindSpeeds}

-----------------------------------------------------------------------------
(* DispersionCalculator *)

stability_classes ==
    [A |-> [a |-> 527, b |-> 865],
     B |-> [a |-> 371, b |-> 866],
     C |-> [a |-> 209, b |-> 897],
     D |-> [a |-> 128, b |-> 905],
     E |-> [a |-> 98, b |-> 902],
     F |-> [a |-> 65, b |-> 902]]

determine_stability_class_inclusive(weather) ==
    IF weather.wind_speed <= 20 THEN "F"
    ELSE IF weather.wind_speed <= 30 THEN "E"
    ELSE IF weather.wind_speed <= 50 THEN "D"
    ELSE IF weather.wind_speed <= 60 THEN "C"
    ELSE IF weather.wind_speed <= 80 THEN "B"
    ELSE "A"

determine_stability_class(weather) ==
    IF weather.wind_speed < 20 THEN "F"
    ELSE IF weather.wind_speed < 30 THEN "E"
    ELSE IF weather.wind_speed < 50 THEN "D"
    ELSE IF weather.wind_speed < 60 THEN "C"
    ELSE IF weather.wind_speed < 80 THEN "B"
    ELSE "A"

\* an emission rate: a finite value v (g/s) or NaN, held either in a Python
\* float or in a numpy float64
Rate(v, nan, numpy) == [v |-> v, nan |-> nan, np |-> numpy]
RateKind(emission_rate) ==
    IF emission_rate.nan THEN "nan" ELSE KindOf(emission_rate.v)

heights_short == <<0, 50, 100, 200>>

heights == <<0, 50, 100, 200, 500>>

distances == <<100, 500, 1000, 2000, 5000>>

IndexOf(seq, x) == CHOOSE i \in 1..Len(seq) : seq[i] = x

\* The size of (params['a'] * distance ** params['b']) ** 2 in whole square
\* metres (rounded down) for the distances of the grid; 0 for distance 0.
spread_squared(params, distance) ==
    IF distance = 0 THEN 0
    ELSE LET row ==
               CASE params.a = 527 -> <<800, 12966, 43015, 142693, 696368>>
                 [] params.a = 371 -> <<400, 6506, 21614, 71801, 351045>>
                 [] params.a = 209 -> <<169, 3035, 10526, 36503, 188905>>
                 [] params.a = 128 -> <<68, 1257, 4409, 15462, 81199>>
                 [] params.a = 98 -> <<38, 710, 2480, 8659, 45226>>
                 [] OTHER -> <<17, 312, 1091, 3809, 19896>>
         IN  row[IndexOf(distances, distance)]

\* params['a'] * distance ** params['b'] : the kind of the value and the
\* size of its square
sigma(params, distance) ==
    [k |-> KMul(KindOf(params.a), KPow(distance, params.b)),
     sq |-> spread_squared(params, distance)]

Square(n) == n * n

plume_offset_squared_fixed(z, stack_height) == Square(z - 50)

\* (z - stack_height)**2 : the squared distance of height z from the
\* centerline of the plume
plume_offset_squared(z, stack_height) == Square(z - stack_height)

\* |x| > 745.13 for x = 0.5 * (z - stack_height)**2 / sigma_z**2 : np.exp(-x)
\* is below the smallest double, np.exp(x) above the largest
BeyondDouble(z, stack_height, sigma_z) ==
    plume_offset_squared(z, stack_height) > 1490 * sigma_z.sq

\* np.exp(x).  far tells that |x| is beyond the range of a double: the
\* result underflows to 0.0 (x < 0) or overflows to inf (x > 0).
np_exp(x, far) ==
    CASE x = "zero" -> "pos"
      [] x = "neg" -> IF far THEN "zero" ELSE "pos"
      [] x = "pos" -> IF far THEN "inf" ELSE "pos"
      [] x = "ninf" -> "zero"
      [] x = "inf" -> "inf"
      [] OTHER -> "nan"

exponent_unsigned(z, stack_height, sigma_z) ==
    KDiv(KMul("pos", KindOf(plume_offset_squared(z, stack_height))),
         KMul(sigma_z.k, sigma_z.k), FALSE)

\* -0.5 * (z - stack_height)**2 / sigma_z**2 , all Python floats
exponent(z, stack_height, sigma_z) ==
    KDiv(KMul("neg", KindOf(plume_offset_squared(z, stack_height))),
         KMul(sigma_z.k, sigma_z.k), FALSE)

gaussian_plume_unscaled(weather, emission_rate, sigma_y, sigma_z, z, stack_height) ==
    LET den == KMul("pos", KMul(KindOf(weather.wind_speed),
                                KMul(sigma_y.k, sigma_z.k)))
        quot == KDiv(RateKind(emission_rate), den, emission_rate.np)
        arg == exponent(z, stack_height, sigma_z)
    IN  IF quot = "ZeroDivisionError" \/ arg = "ZeroDivisionError"
        THEN "ZeroDivisionError"
        ELSE np_exp(arg, BeyondDouble(z, stack_height, sigma_z))

\* the Gaussian plume equation for one height:
\*   emission_rate / (2 * np.pi * wind_speed * sigma_y * sigma_z)
\*     * np.exp(-0.5 * (z - stack_height)**2 / sigma_z**2)
\* The quotient is evaluated first, then the argument of np.exp.  Within
\* the modelled ranges the product of the two factors is 0.0 exactly when
\* the Gaussian term is.
gaussian_plume(weather, emission_rate, sigma_y, sigma_z, z, stack_height) ==
    LET den == KMul("pos", KMul(KindOf(weather.wind_speed),
                                KMul(sigma_y.k, sigma_z.k)))
        quot == KDiv(RateKind(emission_rate), den, emission_rate.np)
        arg == exponent(z, stack_height, sigma_z)
    IN  IF quot = "ZeroDivisionError" \/ arg = "ZeroDivisionError"
        THEN "ZeroDivisionError"
        ELSE KMul(quot, np_exp(arg, BeyondDouble(z, stack_height, sigma_z)))

\* A concentration: its kind, and the squared offset from the centerline
\* that went into its Gaussian term.  Of two finite nonzero values of one
\* field the one with the smaller offset is the larger.
Concentration(k, off) == [t |-> "float", k |-> k, off |-> off]

Returned(field) == [status |-> "returned", exc |-> "none", field |-> field]
Raised(e) == [status |-> "raised", exc |-> e, field |-> EmptyDict]
NotCalled == [status |-> "ready", exc |-> "none", field |-> EmptyDict]

\* the loop "for z in heights", from the i-th height on
RECURSIVE HeightsLoop(_, _, _, _, _, _, _)
HeightsLoop(i, concentrations, weather, emission_rate, sigma_y, sigma_z, stack_height) ==
    IF i > Len(heights) THEN Returned(concentrations)
    ELSE LET z == heights[i]
             concentration == gaussian_plume(weather, emission_rate, sigma_y,
                                             sigma_z, z, stack_height)
         IN  IF concentration = "ZeroDivisionError"
             THEN Raised("ZeroDivisionError")
             ELSE HeightsLoop(i + 1,
                      DictSet(concentrations, FormatM(z),
                              Concentration(concentration,
                                  plume_offset_squared(z, stack_height))),
                      weather, emission_rate, sigma_y, sigma_z, stack_height)

\* The outcome carries, besides the returned field or the exception, the
\* locals stability_class and params of the call.
calculate_dispersion(weather, emission_rate, distance, stack_height) ==
    LET stability_class == determine_stability_class(weather)
        params == stability_classes[stability_class]
        sigma_y == sigma(params, distance)
        sigma_z == sigma(params, distance)
        r == HeightsLoop(1, EmptyDict, weather, emission_rate, sigma_y,
                         sigma_z, stack_height)
    IN  [status |-> r.status, exc |-> r.exc, field |-> r.field,
         stability_class |-> stability_class, params |-> params]

-----------------------------------------------------------------------------
(* Direct calls of the calculator *)

Rates == {Rate(v, FALSE, n) : v \in {0 - 50, 0, 100}, n \in BOOLEAN}
             \cup {Rate(0, TRUE, n) : n \in BOOLEAN}
Distances == {0, 100, 500, 5000}
StackHeights == {10, 50}

Query(weather, emission_rate, distance, stack_height) ==
    [weather |-> weather, emission_rate |-> emission_rate,
     distance |-> distance, stack_height |-> stack_height]

NoQuery == Query(_get_dummy_weather, Rate(0, FALSE, FALSE), 100, 10)

PassIdle ==
    /\ pc = "idle"
    /\ predicted_emissions = EmptyDict
    /\ fetch = "none"
    /\ weather_conditions = _get_dummy_weather
    /\ dispersion_patterns = EmptyDict
    /\ patterns = EmptyDict
    /\ pi = 1
    /\ di = 1
    /\ calls = 0
    /\ exc = "none"
    /\ heatmap = "none"

ClassInit ==
    /\ q \in {Query(w, Rate(100, FALSE, FALSE), 100, 10) : w \in AllWeathers}
    /\ cls = "none"
    /\ res = NotCalled
    /\ PassIdle
    /\ ExtIdle

CalcInit ==
    /\ q \in {Query(w, e, d, h) : w \in WindWeathers, e \in Rates,
                                  d \in Distances, h \in StackHeights}
    /\ cls = "none"
    /\ res = NotCalled
    /\ PassIdle
    /\ ExtIdle

Classify ==
    /\ cls = "none"
    /\ cls' = determine_stability_class(q.weather)
    /\ UNCHANGED <<q, res>>
    /\ UNCHANGED passVars
    /\ UNCHANGED extVars

Calculate ==
    /\ res.status = "ready"
    /\ res' = calculate_dispersion(q.weather, q.emission_rate, q.distance,
                                   q.stack_height)
    /\ UNCHANGED <<q, cls>>
    /\ UNCHANGED passVars
    /\ UNCHANGED extVars

ClassSpec == ClassInit /\ [][Classify]_vars

CalcSpec == CalcInit /\ [][Calculate]_vars

-----------------------------------------------------------------------------
(* WeatherIntegrator *)

\* What requests.get / raise_for_status / response.json() can do.  A JSON
\* body is given by the keys it has and the values it reports.
Response(kind, has, w) == [kind |-> kind, has |-> has, w |-> w]

BodyKeys == {"main", "wind", "deg", "clouds"}

\* data['wind'].get('deg', 0)
wind_deg(response) ==
    IF "deg" \in response.has THEN response.w.wind_direction ELSE 0

\* wraps: response.json() raises requests.exceptions.JSONDecodeError, a
\* RequestException (requests 2.27 and later); otherwise it raises a plain
\* ValueError, which the except clause does not name.
get_current_weather(response, wraps) ==
    CASE response.kind \in {"ConnectionError", "HTTPError"} ->
            [exc |-> "none", weather |-> _get_dummy_weather]
      [] response.kind = "NotJSON" ->
            IF wraps THEN [exc |-> "none", weather |-> _get_dummy_weather]
            ELSE [exc |-> "ValueError", weather |-> _get_dummy_weather]
      [] OTHER ->
            IF {"main", "wind", "clouds"} \subseteq response.has
            THEN [exc |-> "none",
                  weather |-> WeatherCondition(
                      response.w.temperature, response.w.pressure,
                      response.w.humidity, response.w.wind_speed,
                      wind_deg(response), response.w.cloud_cover)]
            ELSE [exc |-> "KeyError", weather |-> _get_dummy_weather]

-----------------------------------------------------------------------------
(* LaunchWeatherAnalyzer.analyze_launch_conditions and the dashboard *)

Pollutants == {"co2", "nox", "al2o3"}

PassRateValues == {<<0 - 50, FALSE>>, <<100, FALSE>>, <<0, TRUE>>}

\* insertion-ordered emission mappings of at most MaxPollutants entries,
\* all Python floats (the module's own __main__) or all numpy float64
\* (app.py, test_integration.py)
RECURSIVE EmissionItems(_, _)
EmissionItems(n, numpy) ==
    IF n = 0 THEN {<<>>}
    ELSE LET shorter == EmissionItems(n - 1, numpy)
         IN  shorter \cup
             {Append(s, <<p, Rate(r[1], r[2], numpy)>>) :
                 s \in {t \in shorter : Len(t) = n - 1},
                 p \in Pollutants, r \in PassRateValues}

HasKey(items, key) == \E i \in 1..Len(items) : items[i][1] = key

DistinctKeys(items) ==
    \A i, j \in 1..Len(items) : items[i][1] = items[j][1] => i = j

EmissionMaps ==
    {Dict(s) : s \in {t \in EmissionItems(MaxPollutants, FALSE)
                             \cup EmissionItems(MaxPollutants, TRUE) :
                        DistinctKeys(t)}}

ServiceWeathers ==
    [temperature : {28815}, pressure : {101325}, humidity : {70},
     wind_speed : {0, 15, 50, 120}, wind_direction : {90},
     cloud_cover : {30, 90}]

Responses ==
    {Response(k, BodyKeys, _get_dummy_weather) :
        k \in {"ConnectionError", "HTTPError", "NotJSON"}}
    \cup {Response("JSON", BodyKeys \ m, w) :
            m \in {{}, {"deg"}, {"wind", "deg"}, {"clouds"}, {"main"}},
            w \in ServiceWeathers}

\* why the live fetch did not deliver a weather state
FetchCause(response) ==
    CASE response.kind # "JSON" -> response.kind
      [] ~({"main", "wind", "clouds"} \subseteq response.has) -> "MissingField"
      [] OTHER -> "ok"

PassInit ==
    /\ q = NoQuery
    /\ cls = "none"
    /\ res = NotCalled
    /\ pc = "start"
    /\ predicted_emissions \in EmissionMaps
    /\ fetch = "none"
    /\ weather_conditions = _get_dummy_weather
    /\ dispersion_patterns = EmptyDict
    /\ patterns = EmptyDict
    /\ pi = 1
    /\ di = 1
    /\ calls = 0
    /\ exc = "none"
    /\ heatmap = "none"
    /\ ExtIdle

\* line 153: weather_conditions = self.weather.get_current_weather(lat, lon)
\* line 156: dispersion_patterns = {}
GetCurrentWeather ==
    /\ pc = "start"
    /\ \E response \in Responses, wraps \in BOOLEAN :
         LET r == get_current_weather(response, wraps)
         IN  /\ fetch' = FetchCause(response)
             /\ exc' = r.exc
             /\ weather_conditions' = r.weather
             /\ pc' = IF r.exc = "none" THEN "outer" ELSE "raised"
    /\ dispersion_patterns' = EmptyDict
    /\ UNCHANGED <<predicted_emissions, patterns, pi, di, calls, heatmap>>
    /\ UNCHANGED calcVars
    /\ UNCHANGED extVars

\* lines 157-160: the next pollutant of predicted_emissions.items()
NextPollutant ==
    /\ pc = "outer"
    /\ pi <= Len(predicted_emissions.items)
    /\ patterns' = EmptyDict
    /\ di' = 1
    /\ pc' = "inner"
    /\ UNCHANGED <<predicted_emissions, fetch, weather_conditions,
                   dispersion_patterns, pi, calls, exc, heatmap>>
    /\ UNCHANGED calcVars
    /\ UNCHANGED extVars

\* lines 162-168: one distance of the inner loop
CalculateCell ==
    /\ pc = "inner"
    /\ di <= Len(distances)
    /\ LET distance == distances[di]
           emission_rate == predicted_emissions.items[pi][2]
           r == calculate_dispersion(weather_conditions, emission_rate,
                                     distance, 10)
       IN  IF r.status = "raised"
           THEN /\ exc' = r.exc
                /\ pc' = "raised"
                /\ UNCHANGED <<patterns, di>>
           ELSE /\ patterns' = DictSet(patterns, FormatM(distance), r.field)
                /\ di' = di + 1
                /\ UNCHANGED <<exc, pc>>
    /\ calls' = calls + 1
    /\ UNCHANGED <<predicted_emissions, fetch, weather_conditions,
                   dispersion_patterns, pi, heatmap>>
    /\ UNCHANGED calcVars
    /\ UNCHANGED extVars

\* line 170: dispersion_patterns[pollutant] = patterns
StorePatterns ==
    /\ pc = "inner"
    /\ di > Len(distances)
    /\ dispersion_patterns' =
           DictSet(dispersion_patterns, predicted_emissions.items[pi][1],
                   patterns)
    /\ pi' = pi + 1
    /\ pc' = "outer"
    /\ UNCHANGED <<predicted_emissions, fetch, weather_conditions, patterns,
                   di, calls, exc, heatmap>>
    /\ UNCHANGED calcVars
    /\ UNCHANGED extVars

\* lines 172-175: return {'weather': ..., 'dispersion_patterns': ...}
Return ==
    /\ pc = "outer"
    /\ pi > Len(predicted_emissions.items)
    /\ pc' = "done"
    /\ UNCHANGED <<predicted_emissions, fetch, weather_conditions,
                   dispersion_patterns, patterns, pi, di, calls, exc, heatmap>>
    /\ UNCHANGED calcVars
    /\ UNCHANGED extVars

\* app.py: the four nested loops over .items().  A value that is not a dict
\* has no .items(); the three outer loops are outside the try block.
heatmap_loop(dispersion_data) ==
    IF \E i \in 1..Len(dispersion_data.items) :
         LET time_data == dispersion_data.items[i][2]
         IN  \/ time_data.t # "dict"
             \/ \E j \in 1..Len(time_data.items) :
                  LET distance_data == time_data.items[j][2]
                  IN  \/ distance_data.t # "dict"
                      \/ \E k \in 1..Len(distance_data.items) :
                           distance_data.items[k][2].t # "dict"
    THEN "AttributeError"
    ELSE "ok"

BuildHeatmap ==
    /\ pc = "done"
    /\ heatmap = "none"
    /\ heatmap' = heatmap_loop(dispersion_patterns)
    /\ UNCHANGED <<pc, predicted_emissions, fetch, weather_conditions,
                   dispersion_patterns, patterns, pi, di, calls, exc>>
    /\ UNCHANGED calcVars
    /\ UNCHANGED extVars

Next ==
    \/ GetCurrentWeather
    \/ NextPollutant
    \/ CalculateCell
    \/ StorePatterns
    \/ Return
    \/ BuildHeatmap

Spec == PassInit /\ [][Next]_vars

-----------------------------------------------------------------------------
(* Properties *)

AltitudeLabels == <<"0m", "50m", "100m", "200m", "500m">>
DistanceLabels == <<"100m", "500m", "1000m", "2000m", "5000m">>
HourLabels == [t \in 1..24 |-> "Hour " \o ToString(t - 1)]

Called == res.status # "ready"

\* C1: determine_stability_class returns the class of the ascending
\* first-match ladder on wind_speed alone (< 2 F, < 3 E, < 5 D, < 6 C, < 8 B,
\* otherwise A), whatever the other fields of the weather state are; negative
\* speeds give F and the boundary speeds 2, 3, 5, 6, 8 give E, D, C, B, A.
C1_StabilityLadder ==
    cls # "none" =>
        LET w == q.weather.wind_speed
        IN  /\ (w < 20) = (cls = "F")
            /\ (20 <= w /\ w < 30) = (cls = "E")
            /\ (30 <= w /\ w < 50) = (cls = "D")
            /\ (50 <= w /\ w < 60) = (cls = "C")
            /\ (60 <= w /\ w < 80) = (cls = "B")
            /\ (80 <= w) = (cls = "A")
            /\ (w < 0 => cls = "F")
            /\ (w = 20 => cls = "E")
            /\ (w = 30 => cls = "D")
            /\ (w = 50 => cls = "C")
            /\ (w = 60 => cls = "B")
            /\ (w = 80 => cls = "A")

C1_Witness ==
    /\ cls = "E"
    /\ q.weather.wind_speed = 20
    /\ q.weather.cloud_cover = 90
    /\ q.weather.temperature = 27315

\* C2: every concentration field returned by calculate_dispersion has exactly
\* the five altitude keys 0m, 50m, 100m, 200m, 500m, in that order, none
\* missing and none twice.
C2_FieldKeys ==
    res.status = "returned" => Keys(res.field) = AltitudeLabels

C2_Witness ==
    /\ res.status = "returned"
    /\ Len(res.field.items) = 5
    /\ res.field.items[5][1] = "500m"
    /\ q.weather.wind_speed < 0

ValidQuery ==
    /\ q.weather.wind_speed > 0
    /\ ~q.emission_rate.nan
    /\ q.emission_rate.v >= 0
    /\ q.distance > 0

\* C5 (as claimed): calculate_dispersion called with distance <= 0, with
\* wind_speed <= 0 or with a negative emission rate signals a validation
\* error and returns no field, without entering the division.
C5_InvalidRejected ==
    (/\ Called
     /\ \/ q.distance <= 0
        \/ q.weather.wind_speed <= 0
        \/ (~q.emission_rate.nan /\ q.emission_rate.v < 0))
    => (res.status = "raised" /\ res.exc = "ValueError")

\* C9: for a valid query (wind_speed > 0, emission_rate >= 0, distance > 0)
\* every concentration of the returned field is finite and >= 0.
C9_FiniteNonNegative ==
    (Called /\ ValidQuery) =>
        /\ res.status = "returned"
        /\ \A i \in 1..Len(res.field.items) :
               res.field.items[i][2].k \in {"zero", "pos"}

C9_Witness ==
    /\ ValidQuery
    /\ res.status = "returned"
    /\ q.emission_rate.v > 0
    /\ res.field.items[1][2].k = "pos"
    /\ res.field.items[5][2].k = "zero"

\* C10: for a valid weather and distance an emission rate of 0 gives a
\* concentration of exactly 0.0 at each of the five altitudes, as a normal
\* return.
C10_ZeroEmission ==
    (Called /\ ValidQuery /\ q.emission_rate.v = 0) =>
        /\ res.status = "returned"
        /\ Len(res.field.items) = 5
        /\ \A i \in 1..Len(res.field.items) :
               res.field.items[i][2].k = "zero"

C10_Witness ==
    /\ ValidQuery
    /\ q.emission_rate.v = 0
    /\ q.emission_rate.np
    /\ res.status = "returned"
    /\ Len(res.field.items) = 5

IsDictWithKeys(v, labels) == v.t = "dict" /\ Keys(v) = labels

\* C3 (as claimed): the returned series is nested on four levels: pollutant,
\* "Hour t" for t in 0..23, distance label, altitude label, then the
\* concentration.
C3_FourLevels ==
    pc = "done" =>
        \A i \in 1..Len(dispersion_patterns.items) :
            LET time_data == dispersion_patterns.items[i][2]
            IN  /\ IsDictWithKeys(time_data, HourLabels)
                /\ \A j \in 1..Len(time_data.items) :
                     LET distance_data == time_data.items[j][2]
                     IN  /\ IsDictWithKeys(distance_data, DistanceLabels)
                         /\ \A k \in 1..Len(distance_data.items) :
                              IsDictWithKeys(distance_data.items[k][2],
                                             AltitudeLabels)

RECURSIVE Leaves(_)
RECURSIVE LeavesOfItems(_, _)
LeavesOfItems(items, i) ==
    IF i > Len(items) THEN 0
    ELSE Leaves(items[i][2]) + LeavesOfItems(items, i + 1)
Leaves(v) == IF v.t = "float" THEN 1 ELSE LeavesOfItems(v.items, 1)

\* C4 (as claimed): a build makes |pollutants| x 24 x 5 calculator calls and
\* yields |pollutants| x 24 x 5 x 5 leaf concentrations.
C4_CallsAndLeaves ==
    pc = "done" =>
        /\ calls = Len(predicted_emissions.items) * 24 * 5
        /\ Leaves(dispersion_patterns) =
               Len(predicted_emissions.items) * 24 * 5 * 5

\* C6 (as claimed): whenever the live fetch fails, whatever the cause,
\* get_current_weather returns the dummy state and no exception reaches the
\* analysis.
C6_FallbackOnAnyFailure ==
    fetch \notin {"none", "ok"} =>
        /\ weather_conditions = _get_dummy_weather
        /\ exc = "none"
        /\ pc # "raised"

\* C7 (as claimed): every weather state handed to the calculator has
\* wind_speed of at least 1.0 m/s, so the division by wind_speed is never a
\* division by zero.
C7_WindFloor ==
    calls > 0 =>
        /\ weather_conditions.wind_speed >= 10
        /\ exc # "ZeroDivisionError"

BadRate(emission_rate) == emission_rate.nan \/ emission_rate.v < 0

\* C8 (as claimed): a pollutant whose emission rate is negative or NaN is
\* rejected before the grid loop and contributes no computed concentrations,
\* while every other pollutant of the call gets its fields.
C8_BadPollutantIsolated ==
    pc = "done" =>
         \A i \in 1..Len(predicted_emissions.items) :
            LET pollutant == predicted_emissions.items[i][1]
                computed ==
                    \E j \in 1..Len(dispersion_patterns.items) :
                        /\ dispersion_patterns.items[j][1] = pollutant
                        /\ Leaves(dispersion_patterns.items[j][2]) > 0
            IN  computed = ~BadRate(predicted_emissions.items[i][2])

-----------------------------------------------------------------------------
(* Time decay *)

Missing == [t |-> "missing"]

\* d[key], or Missing when d is no dict or has no such key
Get(d, key) ==
    IF d.t = "dict" /\ \E i \in 1..Len(d.items) : d.items[i][1] = key
    THEN d.items[CHOOSE i \in 1..Len(d.items) : d.items[i][1] = key][2]
    ELSE Missing

KindRank(k) ==
    CASE k = "ninf" -> 0
      [] k = "neg" -> 1
      [] k = "zero" -> 2
      [] k = "pos" -> 3
      [] OTHER -> 4

\* the kinds of x and y allow x < y
KindsAllowBelow(x, y) ==
    /\ x.t = "float" /\ y.t = "float"
    /\ x.k # "nan" /\ y.k # "nan"
    /\ KindRank(x.k) <= KindRank(y.k)
    /\ ~(x.k = y.k /\ x.k \in {"zero", "inf", "ninf"})

HourCell(series, pollutant, t, distance, z) ==
    Get(Get(Get(Get(series, pollutant), "Hour " \o ToString(t)),
            FormatM(distance)), FormatM(z))

\* C11 (as claimed): in a built series, for every pollutant with
\* emission_rate > 0 and every distance and altitude, the concentration of
\* hour t+1 is strictly below that of hour t, for t in 0..22; with
\* emission_rate = 0 it stays 0.
C11_TimeDecay ==
    (pc = "done" /\ weather_conditions.wind_speed > 0) =>
        \A i \in 1..Len(predicted_emissions.items) :
            LET pollutant == predicted_emissions.items[i][1]
                emission_rate == predicted_emissions.items[i][2]
            IN  \A t \in 0..22, di_ \in 1..Len(distances), zi \in 1..Len(heights) :
                    LET now == HourCell(dispersion_patterns, pollutant, t,
                                        distances[di_], heights[zi])
                        later == HourCell(dispersion_patterns, pollutant,
                                          t + 1, distances[di_], heights[zi])
                    IN  /\ (~emission_rate.nan /\ emission_rate.v > 0) =>
                               KindsAllowBelow(later, now)
                        /\ (~emission_rate.nan /\ emission_rate.v = 0) =>
                               (now.t = "float" /\ now.k = "zero"
                                /\ later.t = "float" /\ later.k = "zero")

-----------------------------------------------------------------------------
(* Centerline *)

\* x <= y for two concentrations of one field with a positive quotient
FieldLeq(x, y) == x.k = "zero" \/ (y.k = "pos" /\ x.off >= y.off)

\* x < y for two concentrations of one field with a positive quotient
FieldLess(x, y) == y.k = "pos" /\ (x.k = "zero" \/ x.off > y.off)

Abs(n) == IF n < 0 THEN 0 - n ELSE n

PositiveQuery == ValidQuery /\ q.emission_rate.v > 0

-----------------------------------------------------------------------------
(* The dummy weather state *)

\* C13 (as claimed): for the dummy weather state (wind_speed exactly 5.0) the
\* calculator resolves class D and uses a = 0.128, b = 0.905.
C13_DummyIsClassD ==
    (Called /\ q.weather = _get_dummy_weather) =>
        /\ res.stability_class = "D"
        /\ res.params = [a |-> 128, b |-> 905]

\* C13 (amended): for the dummy weather state (wind_speed exactly 5.0) the
\* calculator resolves class C and uses a = 0.209, b = 0.897; class D with
\* a = 0.128, b = 0.905 is used for 3.0 <= wind_speed < 5.0.
C13_DummyIsClassC ==
    Called =>
        /\ q.weather = _get_dummy_weather =>
               /\ res.stability_class = "C"
               /\ res.params = [a |-> 209, b |-> 897]
        /\ (30 <= q.weather.wind_speed /\ q.weather.wind_speed < 50) =
               (res.stability_class = "D")
        /\ res.stability_class = "D" => res.params = [a |-> 128, b |-> 905]

C13_Witness ==
    /\ Called
    /\ q.weather = _get_dummy_weather
    /\ q.emission_rate = Rate(100, FALSE, FALSE)
    /\ q.distance = 500
    /\ res.status = "returned"
    /\ res.params.a = 209

-----------------------------------------------------------------------------
(* Insertion order *)

\* C15: the returned series has the pollutants in the order of the input
\* emissions mapping, under each pollutant the distance labels 100m, 500m,
\* 1000m, 2000m, 5000m in that order, and in each cell the altitude labels
\* 0m, 50m, 100m, 200m, 500m in that order; the keys and their order are
\* fixed by the emissions mapping alone, so two builds from the same inputs
\* agree on them.
C15_InsertionOrder ==
    pc = "done" =>
        /\ Keys(dispersion_patterns) = Keys(predicted_emissions)
        /\ \A i \in 1..Len(dispersion_patterns.items) :
             LET distance_data == dispersion_patterns.items[i][2]
             IN  /\ Keys(distance_data) = DistanceLabels
                 /\ \A j \in 1..Len(distance_data.items) :
                      Keys(distance_data.items[j][2]) = AltitudeLabels

C15_Witness ==
    /\ pc = "done"
    /\ Keys(predicted_emissions) = <<"nox", "co2">>
    /\ Keys(dispersion_patterns) = <<"nox", "co2">>
    /\ Len(dispersion_patterns.items[2][2].items) = 5

-----------------------------------------------------------------------------
(* LaunchWeatherAnalyzer.generate_risk_assessment *)

\* a concentration given by its value in hundredths (100 is 1.0)
Num(n) == [t |-> "float", k |-> KindOf(n), v |-> n]

\* max(a, b) of two numbers
PyMax(a, b) == IF b > a THEN b ELSE a

\* max(distance_data.values()) of a field with at least one value
RECURSIVE MaxOfValues(_, _, _)
MaxOfValues(items, i, best) ==
    IF i > Len(items) THEN best
    ELSE MaxOfValues(items, i + 1, PyMax(best, items[i][2].v))

\* the loop "for distance_data in distances.values()", from max_conc on
RECURSIVE MaxConc(_, _, _)
MaxConc(items, j, max_conc) ==
    IF j > Len(items) THEN max_conc
    ELSE MaxConc(items, j + 1,
             PyMax(max_conc,
                   MaxOfValues(items[j][2].items, 2, items[j][2].items[1][2].v)))

initial_risk_levels_escalated(weather) ==
    LET weather_risk == IF weather.wind_speed < 100 /\ weather.cloud_cover < 80
                        THEN "LOW" ELSE "MODERATE"
    IN  [weather_risk |-> weather_risk,
         dispersion_risk |-> "LOW",
         overall_risk |-> weather_risk]

\* lines 185-189: the risk_levels dict before the pollutants are looked at
initial_risk_levels(weather) ==
    [weather_risk |-> IF weather.wind_speed < 100 /\ weather.cloud_cover < 80
                      THEN "LOW" ELSE "MODERATE",
     dispersion_risk |-> "LOW",
     overall_risk |-> "LOW"]

\* lines 193-201: the loop over patterns.items(), from the i-th pollutant on
RECURSIVE RiskLoop(_, _, _)
RiskLoop(items, i, risk_levels) ==
    IF i > Len(items) THEN risk_levels
    ELSE LET max_conc == MaxConc(items[i][2].items, 1, 0)
         IN  RiskLoop(items, i + 1,
                 IF max_conc > 100
                 THEN [risk_levels EXCEPT !.dispersion_risk = "HIGH",
                                          !.overall_risk = "HIGH"]
                 ELSE risk_levels)

generate_risk_assessment(analysis_results) ==
    RiskLoop(analysis_results.dispersion_patterns.items, 1,
             initial_risk_levels(analysis_results.weather))

RiskLeaves == {0 - 5, 100, 101}

RiskFields ==
    {Dict(<<<<"0m", Num(a)>>, <<"50m", Num(b)>>>>) : a, b \in RiskLeaves}

RiskPatterns ==
    {Dict(<<<<"100m", f>>>>) : f \in RiskFields}
    \cup {Dict(<<<<"100m", f>>, <<"500m", g>>>>) : f, g \in RiskFields}

RiskSeries ==
    {EmptyDict}
    \cup {Dict(<<<<"co2", x>>>>) : x \in RiskPatterns}
    \cup {Dict(<<<<"co2", x>>, <<"nox", y>>>>) : x, y \in RiskPatterns}

RiskWeathers ==
    {[_get_dummy_weather EXCEPT !.wind_speed = w, !.cloud_cover = c] :
        w \in {50, 100}, c \in {30, 80}}

RiskInit ==
    /\ q = NoQuery
    /\ cls = "none"
    /\ res = NotCalled
    /\ PassIdle
    /\ par = "idle"
    /\ lim = "idle"
    /\ collector = "idle"
    /\ risk \in {[status |-> "ready",
                  analysis_results |-> [weather |-> w,
                                        dispersion_patterns |-> d],
                  risk_levels |-> "none"] :
                    w \in RiskWeathers, d \in RiskSeries}

GenerateRiskAssessment ==
    /\ risk.status = "ready"
    /\ risk' = [risk EXCEPT
                  !.status = "returned",
                  !.risk_levels = generate_risk_assessment(risk.analysis_results)]
    /\ UNCHANGED <<par, lim, collector>>
    /\ UNCHANGED calcVars
    /\ UNCHANGED passVars

RiskSpec == RiskInit /\ [][GenerateRiskAssessment]_vars

SomeLeafAbove(series, limit) ==
    \E i \in 1..Len(series.items) :
        \E j \in 1..Len(series.items[i][2].items) :
            \E k \in 1..Len(series.items[i][2].items[j][2].items) :
                series.items[i][2].items[j][2].items[k][2].v > limit

\* C16: in every assessment returned by generate_risk_assessment,
\* overall_risk equals dispersion_risk, both HIGH exactly when some
\* concentration of some pollutant exceeds 1.0 and both LOW otherwise;
\* weather_risk is MODERATE exactly when wind_speed >= 10 or cloud_cover >= 80
\* and has no influence on overall_risk.
C16_OverallIsDispersionRisk ==
    risk.status = "returned" =>
        LET levels == risk.risk_levels
            weather == risk.analysis_results.weather
            high == SomeLeafAbove(risk.analysis_results.dispersion_patterns, 100)
        IN  /\ levels.overall_risk = levels.dispersion_risk
            /\ levels.overall_risk = (IF high THEN "HIGH" ELSE "LOW")
            /\ levels.weather_risk =
                 (IF weather.wind_speed >= 100 \/ weather.cloud_cover >= 80
                  THEN "MODERATE" ELSE "LOW")

C16_Witness ==
    /\ risk.status = "returned"
    /\ risk.risk_levels.weather_risk = "MODERATE"
    /\ risk.risk_levels.overall_risk = "LOW"
    /\ risk.risk_levels.dispersion_risk = "LOW"
    /\ Len(risk.analysis_results.dispersion_patterns.items) = 2

-----------------------------------------------------------------------------
(* LaunchImpactModel (src/src/model.py) *)

\* the pollutants in the order load_models reads them
model_pollutants == <<"co2", "nox", "al2o3">>

ModelFiles == {"feature_columns", "co2", "nox", "al2o3"}

NoModels == [p \in {} |-> "fitted"]

\* __init__, with the model files as they are found on disk.  lpc is the
\* position of load_models: 0 when it is not running, i when it is about to
\* read the i-th model
NewModel(files) ==
    [models |-> NoModels, feature_columns |-> "None", files |-> files,
     lpc |-> 0, last |-> "none", outcome |-> "none", n |-> 0]

load_failed_partial(obj) ==
    [obj EXCEPT !.feature_columns = "None"]

\* lines 40-43: the except clause of load_models
load_failed(obj) ==
    [obj EXCEPT !.models = NoModels, !.feature_columns = "None"]

\* self.models[pollutant] = value
SetModel(models, pollutant, value) ==
    [p \in (DOMAIN models) \cup {pollutant} |->
        IF p = pollutant THEN value ELSE models[p]]

LoadReturned(obj) ==
    [obj EXCEPT !.lpc = 0, !.last = "load_models",
                !.outcome = "returned"]

LimInit ==
    /\ q = NoQuery
    /\ cls = "none"
    /\ res = NotCalled
    /\ PassIdle
    /\ par = "idle"
    /\ risk = "idle"
    /\ collector = "idle"
    /\ lim \in {NewModel(f) : f \in [ModelFiles -> {"ok", "missing"}]}

LimFrame ==
    /\ UNCHANGED <<par, risk, collector>>
    /\ UNCHANGED calcVars
    /\ UNCHANGED passVars

\* train: the estimators are put into self.models first (lines 15-19); when
\* a fit raises, nothing else has happened; otherwise feature_columns is set
\* and all four files are written
Train ==
    /\ lim.lpc = 0
    /\ lim.n < MaxCalls
    /\ \E fits \in BOOLEAN :
         lim' = IF fits
                THEN [lim EXCEPT
                        !.models = [p \in Pollutants |-> "fitted"],
                        !.feature_columns = "cols",
                        !.files = [f \in ModelFiles |-> "ok"],
                        !.last = "train", !.outcome = "returned",
                        !.n = lim.n + 1]
                ELSE [lim EXCEPT
                        !.models = [p \in Pollutants |-> "unfitted"],
                        !.last = "train", !.outcome = "raised",
                        !.n = lim.n + 1]
    /\ LimFrame

\* a model file disappears from disk
RemoveFile ==
    /\ lim.lpc = 0
    /\ \E f \in ModelFiles :
         /\ lim.files[f] = "ok"
         /\ lim' = [lim EXCEPT !.files[f] = "missing"]
    /\ LimFrame

\* line 36: self.feature_columns = joblib.load("models/feature_columns.joblib")
LoadFeatureColumns ==
    /\ lim.lpc = 0
    /\ lim.n < MaxCalls
    /\ lim' = IF lim.files["feature_columns"] = "ok"
              THEN [lim EXCEPT !.feature_columns = "cols", !.lpc = 1,
                               !.n = lim.n + 1]
              ELSE LoadReturned(load_failed([lim EXCEPT !.n = lim.n + 1]))
    /\ LimFrame

\* lines 37-38: self.models[pollutant] = joblib.load(...) for one pollutant
LoadModel ==
    /\ lim.lpc \in 1..Len(model_pollutants)
    /\ LET pollutant == model_pollutants[lim.lpc]
       IN  lim' = IF lim.files[pollutant] = "ok"
                  THEN [lim EXCEPT
                          !.models = SetModel(lim.models, pollutant, "fitted"),
                          !.lpc = lim.lpc + 1]
                  ELSE LoadReturned(load_failed(lim))
    /\ LimFrame

\* line 39: the loop is over, load_models returns
LoadDone ==
    /\ lim.lpc = Len(model_pollutants) + 1
    /\ lim' = LoadReturned(lim)
    /\ LimFrame

\* lines 46-50 and 62 of predict
predict(obj) ==
    IF obj.models = NoModels THEN "ValueError"
    ELSE IF obj.feature_columns = "None" THEN "ValueError"
    ELSE IF \E p \in DOMAIN obj.models : obj.models[p] = "unfitted"
         THEN "NotFittedError"
    ELSE "predictions"

Predict ==
    /\ lim.lpc = 0
    /\ lim.n < MaxCalls
    /\ lim' = [lim EXCEPT !.last = "predict", !.outcome = predict(lim),
                          !.n = lim.n + 1]
    /\ LimFrame

LimNext ==
    \/ Train
    \/ RemoveFile
    \/ LoadFeatureColumns
    \/ LoadModel
    \/ LoadDone
    \/ Predict

LimSpec == LimInit /\ [][LimNext]_vars

FullyLoaded ==
    /\ lim.feature_columns = "cols"
    /\ DOMAIN lim.models = {"co2", "nox", "al2o3"}

FullyEmpty ==
    /\ DOMAIN lim.models = {}
    /\ lim.feature_columns = "None"

\* C17: after load_models returns the object is either fully loaded
\* (feature_columns set and a model for each of co2, nox, al2o3) or fully
\* empty (models = {} and feature_columns = None), never in between; and
\* predict on the empty object raises ValueError.
C17_LoadAllOrNothing ==
    /\ (lim.last = "load_models" /\ lim.lpc = 0) =>
           (FullyLoaded \/ FullyEmpty)
    /\ (lim.last = "predict" /\ FullyEmpty) => lim.outcome = "ValueError"

C17_Witness ==
    /\ lim.last = "load_models"
    /\ lim.lpc = 0
    /\ FullyEmpty
    /\ lim.files["feature_columns"] = "ok"
    /\ lim.files["co2"] = "ok"
    /\ lim.files["nox"] = "missing"

-----------------------------------------------------------------------------
(* LaunchDataCollector (src/src/data_collection.py) *)

\* launch_data and atmospheric_data are 0 for None, otherwise the number of
\* the call that created the DataFrame.  launched and measured record that
\* fetch_launch_data, fetch_atmospheric_data have completed.
NewCollector ==
    [launch_data |-> 0, atmospheric_data |-> 0, last |-> "none",
     outcome |-> "none", n |-> 0, launched |-> FALSE, measured |-> FALSE]

\* lines 19-41
fetch_launch_data(obj) ==
    [obj EXCEPT !.launch_data = obj.n + 1, !.last = "fetch_launch_data",
                !.outcome = "returned", !.n = obj.n + 1, !.launched = TRUE]

\* lines 43-72; iterating over None past the guard would be an AttributeError
fetch_atmospheric_data(obj) ==
    IF obj.launch_data = 0
    THEN [obj EXCEPT !.last = "fetch_atmospheric_data",
                     !.outcome = "ValueError", !.n = obj.n + 1]
    ELSE [obj EXCEPT !.atmospheric_data = obj.n + 1,
                     !.last = "fetch_atmospheric_data",
                     !.outcome = "returned", !.n = obj.n + 1,
                     !.measured = TRUE]

prepare_training_data_and(obj) ==
    IF obj.launch_data = 0 /\ obj.atmospheric_data = 0
    THEN [obj EXCEPT !.last = "prepare_training_data",
                     !.outcome = "ValueError", !.n = obj.n + 1]
    ELSE IF obj.launch_data = 0 \/ obj.atmospheric_data = 0
    THEN [obj EXCEPT !.last = "prepare_training_data",
                     !.outcome = "TypeError", !.n = obj.n + 1]
    ELSE [obj EXCEPT !.last = "prepare_training_data",
                     !.outcome = "returned", !.n = obj.n + 1]

\* lines 74-107; pd.merge with None past the guard would be a TypeError
prepare_training_data(obj) ==
    IF obj.launch_data = 0 \/ obj.atmospheric_data = 0
    THEN [obj EXCEPT !.last = "prepare_training_data",
                     !.outcome = "ValueError", !.n = obj.n + 1]
    ELSE IF obj.launch_data = 0 \/ obj.atmospheric_data = 0
    THEN [obj EXCEPT !.last = "prepare_training_data",
                     !.outcome = "TypeError", !.n = obj.n + 1]
    ELSE [obj EXCEPT !.last = "prepare_training_data",
                     !.outcome = "returned", !.n = obj.n + 1]

CollectorInit ==
    /\ q = NoQuery
    /\ cls = "none"
    /\ res = NotCalled
    /\ PassIdle
    /\ par = "idle"
    /\ risk = "idle"
    /\ lim = "idle"
    /\ collector = NewCollector

CollectorFrame ==
    /\ UNCHANGED <<par, risk, lim>>
    /\ UNCHANGED calcVars
    /\ UNCHANGED passVars

FetchLaunchData ==
    /\ collector.n < MaxCollectorCalls
    /\ collector' = fetch_launch_data(collector)
    /\ CollectorFrame

FetchAtmosphericData ==
    /\ collector.n < MaxCollectorCalls
    /\ collector' = fetch_atmospheric_data(collector)
    /\ CollectorFrame

PrepareTrainingData ==
    /\ collector.n < MaxCollectorCalls
    /\ collector' = prepare_training_data(collector)
    /\ CollectorFrame

CollectorNext ==
    \/ FetchLaunchData
    \/ FetchAtmosphericData
    \/ PrepareTrainingData

CollectorSpec == CollectorInit /\ [][CollectorNext]_vars

DataUnchanged ==
    /\ collector'.launch_data = collector.launch_data
    /\ collector'.atmospheric_data = collector.atmospheric_data

\* C18: in any sequence of calls on a LaunchDataCollector,
\* fetch_atmospheric_data returns data only if fetch_launch_data has
\* completed earlier and prepare_training_data only if both fetches have;
\* called out of order each raises ValueError and leaves launch_data and
\* atmospheric_data unchanged.
C18_FetchOrder ==
    [][collector'.n = collector.n + 1 =>
        /\ collector'.last = "fetch_atmospheric_data" =>
             IF collector.launched
             THEN collector'.outcome = "returned"
             ELSE collector'.outcome = "ValueError" /\ DataUnchanged
        /\ collector'.last = "prepare_training_data" =>
             IF collector.launched /\ collector.measured
             THEN collector'.outcome = "returned"
             ELSE collector'.outcome = "ValueError" /\ DataUnchanged]_vars

C18_Witness ==
    /\ collector.last = "prepare_training_data"
    /\ collector.outcome = "ValueError"
    /\ collector.launched
    /\ ~collector.measured
    /\ collector.launch_data # 0
    /\ collector.atmospheric_data = 0

-----------------------------------------------------------------------------
(* The grid of one build evaluated by parallel workers
   (src/src/weather_integration.py, calculate_dispersion called as in
   analyze_launch_conditions) *)

Workers == {1, 2}

ParWeathers == {[_get_dummy_weather EXCEPT !.wind_speed = w] : w \in {0, 15, 50}}

ParEmissions ==
    {Dict(<<<<"co2", Rate(100, FALSE, FALSE)>>>>),
     Dict(<<<<"nox", Rate(100, FALSE, TRUE)>>>>),
     Dict(<<<<"al2o3", Rate(0 - 50, FALSE, TRUE)>>>>)}

\* the cells of the grid: (index of the pollutant, index of the distance)
Grid(emissions) == (1..Len(emissions.items)) \X (1..Len(distances))

IdleFrame ==
    [pcw |-> "idle", cell |-> <<0, 0>>, emission_rate |-> Rate(0, FALSE, FALSE),
     sigma_y |-> [k |-> "zero", sq |-> 0], sigma_z |-> [k |-> "zero", sq |-> 0],
     i |-> 0, ref |-> 0]

new_mapping_shared(heap) ==
    IF heap = <<>> THEN [ref |-> 1, heap |-> <<EmptyDict>>]
    ELSE [ref |-> 1, heap |-> heap]

\* concentrations = {} : a new dict object at an address of its own
new_mapping(heap) ==
    [ref |-> Len(heap) + 1, heap |-> Append(heap, EmptyDict)]

\* results[cell] is 0 while the cell is not evaluated, -1 when its call
\* raised, otherwise the address of the mapping the call returned
ParInit ==
    /\ q = NoQuery
    /\ cls = "none"
    /\ res = NotCalled
    /\ PassIdle
    /\ risk = "idle"
    /\ lim = "idle"
    /\ collector = "idle"
    /\ \E weather \in ParWeathers, emissions \in ParEmissions :
         par = [weather |-> weather, weather0 |-> weather,
                table |-> stability_classes, emissions |-> emissions,
                heap |-> <<>>, started |-> {},
                frames |-> [w \in Workers |-> IdleFrame],
                results |-> [c \in Grid(emissions) |-> 0]]

ParFrame ==
    /\ UNCHANGED <<risk, lim, collector>>
    /\ UNCHANGED calcVars
    /\ UNCHANGED passVars

\* lines 120-129: the call is entered for one cell of the grid
ParCall(w, cell) ==
    /\ par.frames[w].pcw = "idle"
    /\ cell \in Grid(par.emissions) \ par.started
    /\ Cardinality(par.started) < MaxParCells
    /\ LET emission_rate == par.emissions.items[cell[1]][2]
           distance == distances[cell[2]]
           stability_class == determine_stability_class(par.weather)
           params == par.table[stability_class]
           concentrations == new_mapping(par.heap)
       IN  par' = [par EXCEPT
                     !.heap = concentrations.heap,
                     !.started = @ \cup {cell},
                     !.frames[w] =
                        [pcw |-> "loop", cell |-> cell,
                         emission_rate |-> emission_rate,
                         sigma_y |-> sigma(params, distance),
                         sigma_z |-> sigma(params, distance),
                         i |-> 1, ref |-> concentrations.ref]]
    /\ ParFrame

\* lines 131-136: one iteration of the loop over heights
ParHeight(w) ==
    /\ par.frames[w].pcw = "loop"
    /\ par.frames[w].i <= Len(heights)
    /\ LET f == par.frames[w]
           z == heights[f.i]
           concentration == gaussian_plume(par.weather, f.emission_rate,
                                           f.sigma_y, f.sigma_z, z, 10)
       IN  IF concentration = "ZeroDivisionError"
           THEN par' = [par EXCEPT !.frames[w] = IdleFrame,
                                   !.results[f.cell] = 0 - 1]
           ELSE par' = [par EXCEPT
                          !.frames[w].i = f.i + 1,
                          !.heap[f.ref] =
                             DictSet(@, FormatM(z),
                                 Concentration(concentration,
                                     plume_offset_squared(z, 10)))]
    /\ ParFrame

\* line 138: return concentrations; the caller stores it under its cell
ParReturn(w) ==
    /\ par.frames[w].pcw = "loop"
    /\ par.frames[w].i > Len(heights)
    /\ par' = [par EXCEPT !.frames[w] = IdleFrame,
                          !.results[par.frames[w].cell] = par.frames[w].ref]
    /\ ParFrame

ParNext ==
    \/ \E w \in Workers, cell \in (1..MaxPollutants) \X (1..Len(distances)) :
         ParCall(w, cell)
    \/ \E w \in Workers : ParHeight(w)
    \/ \E w \in Workers : ParReturn(w)

ParSpec == ParInit /\ [][ParNext]_vars

\* what the sequential evaluation of analyze_launch_conditions stores for
\* one cell
Sequential(cell) ==
    calculate_dispersion(par.weather0, par.emissions.items[cell[1]][2],
                         distances[cell[2]], 10)

Evaluated == {c \in Grid(par.emissions) : par.results[c] # 0}

\* C14: calculate_dispersion leaves the weather and the coefficient table
\* unchanged and returns a mapping of its own each call, so every cell
\* evaluated by parallel workers, in any order and any interleaving, holds
\* what the sequential evaluation yields for it.
C14_PureAndOrderIndependent ==
    /\ par.weather = par.weather0
    /\ par.table = stability_classes
    /\ \A c, d \in Evaluated :
         par.results[c] > 0 /\ par.results[c] = par.results[d] => c = d
    /\ \A c \in Evaluated :
         IF par.results[c] < 0
         THEN Sequential(c).status = "raised"
         ELSE /\ Sequential(c).status = "returned"
              /\ par.heap[par.results[c]] = Sequential(c).field

\* a later cell of the grid is finished while both workers are in the
\* middle of their loops over heights
C14_Witness ==
    /\ \E c \in Evaluated : par.results[c] > 0 /\ c[2] > 1
    /\ \A w \in Workers :
         /\ par.frames[w].pcw = "loop"
         /\ par.frames[w].i \in 2..Len(heights)
    /\ par.frames[1].i # par.frames[2].i

====
